---- MODULE Spec2Model ----
(***************************************************************************)
(* Model of the infrastructure program of jkunzler0/CI-CD-Public:          *)
(*   infrastructure/config.py      the settings loader                     *)
(*   infrastructure/__main__.py    the entrypoint                          *)
(*   infrastructure/util/lb.py     LoadBalancer component                  *)
(*   infrastructure/util/ecs_ec2.py  Cluster, Task, Service components     *)
(*   infrastructure/util/rds.py    RDS component                           *)
(* A run evaluates the program top to bottom; every resource constructor   *)
(* declares one resource with the provisioning engine.  The state is the   *)
(* external configuration, what the cloud provider reports, the loaded     *)
(* settings, the declarations made so far, the LoadBalancer's bookkeeping  *)
(* lists and the position of the run.                                      *)
(***************************************************************************)
EXTENDS Integers, Sequences, FiniteSets, TLC

VARIABLES
    pulumi_config,   \* the external key-value configuration of the stack
    provider,        \* what the cloud provider reports: zones, DNS zones, certificates
    settings,        \* module config after import: [loaded, ...records]
    resources,       \* sequence of the resource declarations made so far
    lbobj,           \* the LoadBalancer object: its four bookkeeping lists
    calls,           \* history of the component calls made in this run
    err,             \* "none", or the kind of failure that ended the run
    http,            \* the exchanges with the web service, in order
    pc               \* position of the run

vars ==
    <<pulumi_config, provider, settings, resources, lbobj, calls, err, http, pc>>

(***************************************************************************)
(* Bounds                                                                  *)
(***************************************************************************)
\* largest number of availability zones the provider reports
MaxZones == 3
\* largest number of LoadBalancer method calls in a component-level run
MaxCalls == 3
\* largest number of requests sent to the web service
MaxRequests == 4

(***************************************************************************)
(* Typed values: configuration values keep their Python type.              *)
(***************************************************************************)
IntV(n) == [kind |-> "int", i |-> n, s |-> ""]
StrV(x) == [kind |-> "str", i |-> 0, s |-> x]
FloatV(x) == [kind |-> "float", i |-> 0, s |-> x]
NoneV == [kind |-> "none", i |-> 0, s |-> ""]
BoolV(b) == [kind |-> "bool", i |-> IF b THEN 1 ELSE 0, s |-> ""]

\* a scalar configuration entry: unset, or set to a string
Unset == [set |-> FALSE, s |-> ""]
SetTo(x) == [set |-> TRUE, s |-> x]

\* a structured configuration entry: absent, a JSON object, or another JSON value
AbsentObj == [kind |-> "absent", obj |-> << >>]
Obj(o) == [kind |-> "object", obj |-> o]
ScalarJson == [kind |-> "scalar", obj |-> << >>]

Min(a, b) == IF a < b THEN a ELSE b
Max(a, b) == IF a > b THEN a ELSE b

(***************************************************************************)
(* config.py: the settings loader                                          *)
(***************************************************************************)
\* pulumi_config.get(key, default): the configured string, or the default
ConfigGet(entry, default) == IF entry.set THEN StrV(entry.s) ELSE default

\* pulumi_config.get_object(key, default={}): the parsed value, or {}
ConfigGetObject(entry) == IF entry.kind = "absent" THEN Obj(<< >>) ELSE entry

ECSFields ==
    {"desired_task_count", "max_instance_count", "min_instance_count",
     "container_name", "cluster_name", "task_family_name"}
ECSDefaults ==
    [desired_task_count |-> IntV(1),
     max_instance_count |-> IntV(1),
     min_instance_count |-> IntV(0),
     container_name |-> StrV("container-main"),
     cluster_name |-> StrV("cluster-main"),
     task_family_name |-> StrV("task-main")]

LBFields == {"domain_name", "health_check_path"}
LBRequired == {"domain_name"}
LBDefaults == [health_check_path |-> StrV("/")]

EC2Fields == {"ami_id", "instance_type", "template_name", "key_name"}
EC2Defaults ==
    [ami_id |-> StrV("ami-0bae8df33460eefaa"),
     instance_type |-> StrV("t4g.small"),
     template_name |-> StrV("template-main"),
     key_name |-> NoneV]

RDSFields ==
    {"engine_version", "max_capacity", "min_capacity", "cluster_identifier",
     "database_name", "engine", "engine_type", "engine_mode",
     "master_username", "master_password", "instance_class", "port"}
RDSDefaults ==
    [engine_version |-> StrV("8.0.mysql_aurora.3.03.1"),
     max_capacity |-> IntV(1),
     min_capacity |-> FloatV("0.5"),
     cluster_identifier |-> StrV("inductor-cloud"),
     database_name |-> StrV("inductor"),
     engine |-> StrV("aurora-mysql"),
     engine_type |-> StrV("mysql"),
     engine_mode |-> StrV("provisioned"),
     master_username |-> StrV("inductor"),
     master_password |-> StrV("inductor"),
     instance_class |-> StrV("db.serverless"),
     port |-> IntV(3306)]

\* variant: keys that are no fields are ignored instead of refused
DataclassRaisesLax(fields, required, value) ==
    \/ value.kind # "object"
    \/ ~(required \subseteq DOMAIN value.obj)

\* Cls(**value): the call raises TypeError when value is no mapping, holds a
\* key that is no field, or lacks a field that has no default.
DataclassRaises(fields, required, value) ==
    \/ value.kind # "object"
    \/ ~(DOMAIN value.obj \subseteq fields)
    \/ ~(required \subseteq DOMAIN value.obj)

\* variant: the overrides are dropped, every defaulted field keeps its default
DataclassDefaultsOnly(fields, defaults, value) ==
    [f \in fields |->
        IF f \in DOMAIN defaults THEN defaults[f] ELSE value.obj[f]]

\* the record a successful Cls(**value) builds; values are stored unchecked
Dataclass(fields, defaults, value) ==
    [f \in fields |->
        IF f \in DOMAIN value.obj THEN value.obj[f] ELSE defaults[f]]

\* whether "import config" raises, in the module's statement order
ConfigImportRaises(c) ==
    \/ DataclassRaises(ECSFields, {}, ConfigGetObject(c.ecs))
    \/ DataclassRaises(LBFields, LBRequired, ConfigGetObject(c.lb))
    \/ DataclassRaises(EC2Fields, {}, ConfigGetObject(c.ecs_ec2))
    \/ DataclassRaises(RDSFields, {}, ConfigGetObject(c.rds))

NotLoaded == [loaded |-> FALSE]

\* the module namespace of config after a successful import
ConfigModule(c) ==
    [loaded |-> TRUE,
     AWS_REGION |-> ConfigGet(c.aws_region, StrV("us-east-1")),
     DOCKER_BUILD_SOURCE |->
        [abspath |-> ConfigGet(c.docker_build_source, StrV("../backend")).s],
     RESOURCE_NAME_PREFIX |-> ConfigGet(c.resource_name_prefix, StrV("ind")),
     NUMBER_OF_AVAILABILITY_ZONES |->
        ConfigGet(c.number_of_availability_zones, IntV(2)),
     ecs |-> Dataclass(ECSFields, ECSDefaults, ConfigGetObject(c.ecs)),
     lb |-> Dataclass(LBFields, LBDefaults, ConfigGetObject(c.lb)),
     ecs_ec2 |-> Dataclass(EC2Fields, EC2Defaults, ConfigGetObject(c.ecs_ec2)),
     rds |-> Dataclass(RDSFields, RDSDefaults, ConfigGetObject(c.rds))]

(***************************************************************************)
(* Inputs: the configurations and provider answers a run is checked on     *)
(***************************************************************************)
PrefixChoices == {Unset, SetTo("app")}
AZChoices == {Unset, SetTo("1"), SetTo("3")}
ECSChoices ==
    {AbsentObj,
     Obj([min_instance_count |-> IntV(1), max_instance_count |-> IntV(3)]),
     Obj([desired_task_count |-> IntV(2), cluster_name |-> StrV("cluster-b")]),
     Obj([max_instance_count |-> StrV("3")]),
     Obj([instances |-> IntV(2)])}
LBChoices ==
    {AbsentObj,
     Obj(<< >>),
     Obj([domain_name |-> StrV("example.com")]),
     Obj([domain_name |-> StrV("app.example.com"),
          health_check_path |-> StrV("/health")]),
     Obj([domain_name |-> StrV("example.com"), certificate |-> StrV("x")]),
     Obj([domain_name |-> IntV(7)]),
     ScalarJson}
EC2Choices ==
    {AbsentObj,
     Obj([instance_type |-> StrV("t4g.large"), key_name |-> StrV("debug")])}
RDSChoices ==
    {AbsentObj,
     Obj([port |-> IntV(5432), engine |-> StrV("aurora-postgresql")]),
     Obj([port |-> StrV("5432")]),
     Obj([skip_final_snapshot |-> BoolV(FALSE)])}

ConfigChoices ==
    [aws_region : {Unset}, docker_build_source : {Unset},
     resource_name_prefix : PrefixChoices,
     number_of_availability_zones : AZChoices,
     ecs : ECSChoices, lb : LBChoices, ecs_ec2 : EC2Choices, rds : RDSChoices]

ZoneNames ==
    <<"us-east-1a", "us-east-1b", "us-east-1c", "us-east-1d", "us-east-1e",
      "us-east-1f">>
ZoneLists == {SubSeq(ZoneNames, 1, k) : k \in 0..MaxZones}
HostedZoneChoices == {{}, {"example.com"}, {"example.com", "app.example.com"}}
CertificateChoices == {{}, {"example.com"}, {"app.example.com"}}
ProviderChoices ==
    [zones : ZoneLists, hosted_zones : HostedZoneChoices,
     certificates : CertificateChoices]

(***************************************************************************)
(* The provisioning engine: resource declarations                          *)
(***************************************************************************)
\* one resource constructor call: type token, logical name, parent, arguments
Res(type, name, parent, args) ==
    [type |-> type, name |-> name, parent |-> parent, args |-> args]

\* an output of a declared resource, passed on unresolved
Out(name, attr) == [of |-> name, attr |-> attr]

\* the state a run builds up
NewRun ==
    [resources |-> << >>,
     lb |-> [constructed |-> FALSE],
     calls |-> << >>,
     err |-> "none"]

SameURN(a, b) == a.type = b.type /\ a.name = b.name /\ a.parent = b.parent

\* Registering a declaration.  The engine names a resource by its parent, type
\* and logical name and rejects a second declaration of the same name (spec,
\* section 7: a name collision is a backend-reported error that aborts the
\* run); after a failure nothing more is registered.
Declare(r, d) ==
    IF r.err # "none" THEN r
    ELSE IF \E i \in 1..Len(r.resources) : SameURN(r.resources[i], d)
         THEN [r EXCEPT !.err = "DuplicateURN"]
         ELSE [r EXCEPT !.resources = Append(@, d)]

RECURSIVE DeclareAll(_, _)
DeclareAll(r, ds) ==
    IF ds = << >> THEN r ELSE DeclareAll(Declare(r, Head(ds)), Tail(ds))

\* the record of one component call in the history
Call(op, args, ok) == [op |-> op, args |-> args, ok |-> ok]

(***************************************************************************)
(* util/lb.py: LoadBalancer                                                *)
(***************************************************************************)
LBPrefix(resource_name_prefix) == resource_name_prefix \o "-lb"

AnyIPv4 == {"0.0.0.0/0"}
AnyIPv6 == {"::/0"}

\* aws.ec2.SecurityGroupRule(...) as the components write it: CIDR sources
\* only, no source security group is ever passed
SecurityGroupRule(name, parent, type, from_port, to_port, protocol, sg) ==
    Res("aws:ec2:SecurityGroupRule", name, parent,
        [type |-> type, from_port |-> from_port, to_port |-> to_port,
         protocol |-> protocol,
         cidr_blocks |-> AnyIPv4, ipv6_cidr_blocks |-> AnyIPv6,
         source_security_group_id |-> "",
         security_group_id |-> sg])

\* the declarations of LoadBalancer.__init__, in order
LoadBalancerDecls(resource_name_prefix, vpc_id, subnet_ids) ==
    LET self == LBPrefix(resource_name_prefix)
        alb_name == self \o "-alb"
    IN  << Res("ind:network:LoadBalancer", self, "", << >>),
           Res("aws:ec2:SecurityGroup", self \o "-sg", self,
               [vpc_id |-> vpc_id,
                description |-> "Inbound: Any HTTPS. Outbound: Any HTTP.",
                ingress |-> << >>]),
           SecurityGroupRule(self \o "-sg-ingress", self, "ingress",
                             443, 443, "tcp", self \o "-sg"),
           SecurityGroupRule(self \o "-sg-engress", self, "egress",
                             80, 80, "tcp", self \o "-sg"),
           Res("aws:lb:LoadBalancer", alb_name, self,
               [name |-> alb_name, internal |-> FALSE,
                load_balancer_type |-> "application",
                security_groups |-> <<self \o "-sg">>,
                subnets |-> subnet_ids, vpc_id |-> vpc_id,
                idle_timeout |-> 600]) >>

\* LoadBalancer.__init__: the four lists start empty
LoadBalancerInit(r, resource_name_prefix, vpc_id, subnet_ids) ==
    LET r1 == [r EXCEPT !.lb =
                  [constructed |-> TRUE,
                   resource_name_prefix |-> LBPrefix(resource_name_prefix),
                   vpc_id |-> vpc_id,
                   records |-> << >>,
                   target_groups |-> << >>,
                   target_group_attachments |-> << >>,
                   listeners |-> << >>],
                !.calls = Append(@, Call("LoadBalancer",
                                       [resource_name_prefix |-> resource_name_prefix,
                                        vpc_id |-> vpc_id,
                                        subnet_ids |-> subnet_ids], TRUE))]
    IN  DeclareAll(r1,
                   LoadBalancerDecls(resource_name_prefix, vpc_id, subnet_ids))

\* the Python object a resource constructor returns: the declaration and the
\* identity of the object (the number of the call that built it)
Object(r, d) == [oid |-> Len(r.calls) + 1, decl |-> d]

\* aws.route53.get_zone(name=...): raises when no hosted zone has that name
\* the registrable domain of a name: its last two labels
DotsOf(s) == {i \in 1..Len(s) : SubSeq(s, i, i) = "."}
Apex(s) ==
    IF Cardinality(DotsOf(s)) < 2 THEN s
    ELSE LET last == CHOOSE i \in DotsOf(s) : \A j \in DotsOf(s) : j <= i
             before == CHOOSE i \in DotsOf(s) \ {last} :
                          \A j \in DotsOf(s) \ {last} : j <= i
         IN  SubSeq(s, before + 1, Len(s))

\* variant: the zone is looked up by the apex of the domain name
GetZoneRaisesByApex(p, domain_name) ==
    ~(domain_name.kind = "str" /\ Apex(domain_name.s) \in p.hosted_zones)

\* variant: a lookup that matches no hosted zone returns an empty result
GetZoneRaisesOnNonString(p, domain_name) == domain_name.kind # "str"
GetZoneRaises(p, domain_name) ==
    ~(domain_name.kind = "str" /\ domain_name.s \in p.hosted_zones)

\* aws.acm.get_certificate(domain=...): raises when no certificate matches
GetCertificateRaises(p, domain) ==
    ~(domain.kind = "str" /\ domain.s \in p.certificates)

\* LoadBalancer.add_dns_record
AddDnsRecord(r, p, domain_name) ==
    IF GetZoneRaises(p, domain_name)
    THEN [r EXCEPT !.err = "LookupError",
                   !.calls = Append(@, Call("add_dns_record", [domain_name |-> domain_name], FALSE))]
    ELSE LET self == r.lb.resource_name_prefix
             d == Res("aws:route53:Record", self \o "-alb-record", self,
                      [zone_id |-> Out(domain_name.s, "zone_id"),
                       name |-> domain_name, type |-> "A",
                       alias_name |-> Out(self \o "-alb", "dns_name"),
                       alias_zone_id |-> Out(self \o "-alb", "zone_id"),
                       evaluate_target_health |-> TRUE])
             r1 == [r EXCEPT !.lb.records = Append(@, Object(r, d)),
                             !.calls = Append(@, Call("add_dns_record", [domain_name |-> domain_name], TRUE))]
         IN  Declare(r1, d)

\* the aws.lb.TargetGroup declaration of add_target_group: its name is fixed
TargetGroupDecl(self, vpc_id, health_check_path) ==
    Res("aws:lb:TargetGroup", self \o "-tg", self,
        [port |-> 80, protocol |-> "HTTP", vpc_id |-> vpc_id,
         health_check_path |-> health_check_path, target_type |-> "ip"])

\* variant: the new target group is also filed under the attachments
AddTargetGroupAttaching(r, health_check_path) ==
    LET self == r.lb.resource_name_prefix
        d == TargetGroupDecl(self, Out(self \o "-alb", "vpc_id"),
                             health_check_path)
        r1 == [r EXCEPT !.lb.target_groups = Append(@, Object(r, d)),
                        !.lb.target_group_attachments = Append(@, Object(r, d)),
                        !.calls = Append(@, Call("add_target_group",
                            [health_check_path |-> health_check_path], TRUE))]
    IN  Declare(r1, d)

\* LoadBalancer.add_target_group; the returned object is the last list entry
AddTargetGroup(r, health_check_path) ==
    LET self == r.lb.resource_name_prefix
        d == TargetGroupDecl(self, Out(self \o "-alb", "vpc_id"),
                             health_check_path)
        r1 == [r EXCEPT !.lb.target_groups = Append(@, Object(r, d)),
                        !.calls = Append(@, Call("add_target_group",
                            [health_check_path |-> health_check_path], TRUE))]
    IN  Declare(r1, d)

\* LoadBalancer.add_listener
AddListener(r, p, certificate_domain, target_group) ==
    IF GetCertificateRaises(p, certificate_domain)
    THEN [r EXCEPT !.err = "LookupError",
                   !.calls = Append(@, Call("add_listener",
                            [certificate_domain |-> certificate_domain,
                             target_group |-> target_group], FALSE))]
    ELSE LET self == r.lb.resource_name_prefix
             d == Res("aws:lb:Listener", self \o "-listener", self,
                      [load_balancer_arn |-> Out(self \o "-alb", "arn"),
                       port |-> 443, protocol |-> "HTTPS",
                       ssl_policy |-> "ELBSecurityPolicy-2016-08",
                       action_type |-> "forward",
                       target_group_arn |-> Out(target_group.decl.name, "arn"),
                       certificate_arn |-> Out(certificate_domain.s, "arn")])
             r1 == [r EXCEPT !.lb.listeners = Append(@, Object(r, d)),
                             !.calls = Append(@, Call("add_listener",
                            [certificate_domain |-> certificate_domain,
                             target_group |-> target_group], TRUE))]
         IN  Declare(r1, d)

(***************************************************************************)
(* util/ecs_ec2.py: Cluster, Service, Task                                 *)
(***************************************************************************)
ClusterPrefix(resource_name_prefix) == resource_name_prefix \o "-ecs-cluster"

\* the security group of Cluster and its two rules
ClusterSecurityGroupDecls(self, vpc_id) ==
    << Res("aws:ec2:SecurityGroup", self \o "-sg", self,
           [vpc_id |-> vpc_id,
            description |-> "Inbound: HTTP from LB. Outbound: Any.",
            ingress |-> << >>]),
       SecurityGroupRule(self \o "-sg-ingress", self, "ingress",
                         80, 80, "tcp", self \o "-sg"),
       SecurityGroupRule(self \o "-sg-engress", self, "egress",
                         0, 0, "-1", self \o "-sg") >>

\* variant: scaling derived from the instance bounds
ManagedScalingVaried(min_instance_count, max_instance_count) ==
    [maximum_scaling_step_size |-> 1000,
     minimum_scaling_step_size |-> 1,
     status |-> IF max_instance_count.kind = "int" /\ max_instance_count.i > 1
                THEN "ENABLED" ELSE "DISABLED",
     target_capacity |-> IF min_instance_count.kind = "int"
                         THEN 10 + min_instance_count.i ELSE 10]

\* the managed_scaling argument of the capacity provider
ManagedScaling(min_instance_count, max_instance_count) ==
    [maximum_scaling_step_size |-> 1000,
     minimum_scaling_step_size |-> 1,
     status |-> "ENABLED",
     target_capacity |-> 10]

\* the declarations of Cluster.__init__, in order
ClusterDecls(resource_name_prefix, vpc_id, cluster_name, ec2_config, max_instance_count, min_instance_count, subnet_ids) ==
    LET self == ClusterPrefix(resource_name_prefix)
    IN  << Res("ind:ecs:Cluster", self, "", << >>) >>
        \o ClusterSecurityGroupDecls(self, vpc_id)
        \o
        << Res("aws:iam:Role", self \o "ecs-instance-role", self,
               [principal |-> "ec2.amazonaws.com",
                action |-> "sts:AssumeRole"]),
           Res("aws:iam:RolePolicyAttachment",
               self \o "ecs-instance-policy-attach", self,
               [role |-> Out(self \o "ecs-instance-role", "name"),
                policy_arn |->
                  "arn:aws:iam::aws:policy/service-role/AmazonEC2ContainerServiceforEC2Role"]),
           Res("aws:iam:InstanceProfile",
               self \o "ecs-iam-instance-profile", self,
               [role |-> Out(self \o "ecs-instance-role", "name")]),
           Res("aws:ec2:LaunchTemplate", self \o "launch-template", self,
               [iam_instance_profile |->
                    Out(self \o "ecs-iam-instance-profile", "arn"),
                associate_public_ip_address |-> TRUE,
                security_groups |-> <<self \o "-sg">>,
                image_id |-> ec2_config.ami_id,
                instance_type |-> ec2_config.instance_type,
                key_name |-> ec2_config.key_name,
                name |-> ec2_config.template_name,
                user_data |-> [base64 |-> <<"ECS_CLUSTER=", cluster_name>>]]),
           Res("aws:autoscaling:Group", self \o "autoscaling_group", self,
               [desired_capacity |-> IntV(0),
                min_size |-> min_instance_count,
                max_size |-> max_instance_count,
                vpc_zone_identifiers |-> subnet_ids,
                launch_template |-> Out(self \o "launch-template", "id"),
                launch_template_version |-> "$Latest",
                protect_from_scale_in |-> TRUE]),
           Res("aws:ecs:Cluster", self \o "cluster", self,
               [name |-> cluster_name]),
           Res("aws:ecs:CapacityProvider", self \o "capacity-provider", self,
               [auto_scaling_group_arn |->
                    Out(self \o "autoscaling_group", "arn"),
                managed_termination_protection |-> "ENABLED",
                managed_scaling |->
                    ManagedScaling(min_instance_count, max_instance_count)]),
           Res("aws:ecs:ClusterCapacityProviders",
               self \o "cluster-capacity-provider", self,
               [cluster_name |-> Out(self \o "cluster", "name"),
                capacity_providers |->
                    <<Out(self \o "capacity-provider", "name")>>,
                base |-> 1, weight |-> 100]) >>

\* Cluster.__init__
ClusterInit(r, resource_name_prefix, vpc_id, cluster_name, ec2_config, max_instance_count, min_instance_count, subnet_ids) ==
    DeclareAll([r EXCEPT !.calls = Append(@, Call("Cluster",
                   [resource_name_prefix |-> resource_name_prefix,
                    ec2_config |-> ec2_config,
                    max_instance_count |-> max_instance_count,
                    min_instance_count |-> min_instance_count], TRUE))],
               ClusterDecls(resource_name_prefix, vpc_id, cluster_name,
                            ec2_config, max_instance_count,
                            min_instance_count, subnet_ids))

ServicePrefix(resource_name_prefix) == resource_name_prefix \o "-ecs-service"

\* the declarations of Service.__init__
ServiceDecls(resource_name_prefix, cluster_arn, task_definition_arn, target_group_arn, security_group_ids, container_name, subnet_ids, desired_task_count) ==
    LET self == ServicePrefix(resource_name_prefix)
    IN  << Res("ind:ecs:Service", self, "", << >>),
           Res("aws:ecs:Service", self \o "-service", self,
               [cluster |-> cluster_arn, launch_type |-> "EC2",
                desired_count |-> desired_task_count,
                task_definition |-> task_definition_arn,
                assign_public_ip |-> FALSE,
                subnets |-> subnet_ids,
                security_groups |-> security_group_ids,
                target_group_arn |-> target_group_arn,
                container_name |-> container_name,
                container_port |-> 80]) >>

\* Service.__init__
ServiceInit(r, resource_name_prefix, cluster_arn, task_definition_arn, target_group_arn, security_group_ids, container_name, subnet_ids, desired_task_count) ==
    DeclareAll([r EXCEPT !.calls = Append(@, Call("Service",
                   [resource_name_prefix |-> resource_name_prefix], TRUE))],
               ServiceDecls(resource_name_prefix, cluster_arn,
                            task_definition_arn, target_group_arn,
                            security_group_ids, container_name, subnet_ids,
                            desired_task_count))

TaskPrefix(resource_name_prefix) == resource_name_prefix \o "-ecs-task"

\* the declarations of Task.__init__
TaskDecls(resource_name_prefix, family_name, container_name, container_image) ==
    LET self == TaskPrefix(resource_name_prefix)
    IN  << Res("ind:ecs:Task", self, "", << >>),
           Res("aws:iam:Role", self \o "task-execution-role", self,
               [principal |-> "ecs-tasks.amazonaws.com",
                action |-> "sts:AssumeRole"]),
           Res("aws:iam:RolePolicyAttachment",
               self \o "task-excution-policy-attach", self,
               [role |-> Out(self \o "task-execution-role", "name"),
                policy_arn |->
                  "arn:aws:iam::aws:policy/service-role/AmazonECSTaskExecutionRolePolicy"]),
           Res("aws:ecs:TaskDefinition", self \o "-task-definition", self,
               [family |-> family_name, cpu |-> "256", memory |-> "512",
                network_mode |-> "awsvpc",
                requires_compatibilities |-> <<"EC2">>,
                execution_role_arn |->
                    Out(self \o "task-execution-role", "arn"),
                container_name |-> container_name,
                container_image |-> container_image,
                container_port |-> 80, host_port |-> 80,
                port_protocol |-> "tcp"]) >>

\* Task.__init__
TaskInit(r, resource_name_prefix, family_name, container_name, container_image) ==
    DeclareAll([r EXCEPT !.calls = Append(@, Call("Task",
                   [resource_name_prefix |-> resource_name_prefix], TRUE))],
               TaskDecls(resource_name_prefix, family_name, container_name,
                         container_image))

(***************************************************************************)
(* util/rds.py: RDS                                                        *)
(***************************************************************************)
RDSPrefix(resource_name_prefix) == resource_name_prefix \o "-rds"

\* the name the RDS component itself is registered under: the constructor
\* passes the bare resource_name_prefix to super().__init__
RDSComponentName(resource_name_prefix) == resource_name_prefix

\* variant: the default port, open to any address
RDSIngressOpen(rds_config, access_security_groups) ==
    << [from_port |-> IntV(3306), to_port |-> IntV(3306), protocol |-> "tcp",
        security_groups |-> access_security_groups,
        cidr_blocks |-> AnyIPv4] >>

\* the ingress of the database security group
RDSIngress(rds_config, access_security_groups) ==
    << [from_port |-> rds_config.port, to_port |-> rds_config.port,
        protocol |-> "tcp",
        security_groups |-> access_security_groups,
        cidr_blocks |-> {}] >>

\* the skip_final_snapshot argument of the database cluster
\* variant: the snapshot is skipped for the default engine only
SkipFinalSnapshotByEngine(rds_config) ==
    rds_config.engine = StrV("aurora-mysql")

SkipFinalSnapshot(rds_config) == TRUE

\* the declarations of RDS.__init__, in order
RDSDecls(resource_name_prefix, rds_config, vpc_id, subnet_ids, access_security_groups) ==
    LET self == RDSPrefix(resource_name_prefix)
        comp == RDSComponentName(resource_name_prefix)
        instance_identifier == self \o "-cluster-instance"
    IN  << Res("ind:rds:RDS", comp, "", << >>),
           Res("aws:ec2:SecurityGroup", self \o "-sg", comp,
               [vpc_id |-> vpc_id, description |-> "",
                ingress |-> RDSIngress(rds_config, access_security_groups)]),
           Res("aws:rds:SubnetGroup", self \o "-subnet-group", comp,
               [subnet_ids |-> subnet_ids,
                tag_name |-> self \o "-subnet-group"]),
           Res("aws:rds:Cluster", self \o "-cluster", comp,
               [cluster_identifier |-> rds_config.cluster_identifier,
                database_name |-> rds_config.database_name,
                master_username |-> rds_config.master_username,
                master_password |-> rds_config.master_password,
                engine |-> rds_config.engine,
                engine_mode |-> rds_config.engine_mode,
                engine_version |-> rds_config.engine_version,
                max_capacity |-> rds_config.max_capacity,
                min_capacity |-> rds_config.min_capacity,
                db_subnet_group_name |-> Out(self \o "-subnet-group", "id"),
                vpc_security_group_ids |-> <<self \o "-sg">>,
                skip_final_snapshot |-> SkipFinalSnapshot(rds_config)]),
           Res("aws:rds:ClusterInstance", instance_identifier, comp,
               [cluster_identifier |-> Out(self \o "-cluster", "id"),
                identifier |-> instance_identifier,
                instance_class |-> rds_config.instance_class,
                engine |-> Out(self \o "-cluster", "engine"),
                engine_version |-> Out(self \o "-cluster", "engine_version")])
        >>

\* RDS.__init__
RDSInit(r, resource_name_prefix, rds_config, vpc_id, subnet_ids, access_security_groups) ==
    DeclareAll([r EXCEPT !.calls = Append(@, Call("RDS",
                   [resource_name_prefix |-> resource_name_prefix,
                    rds_config |-> rds_config,
                    access_security_groups |-> access_security_groups], TRUE))],
               RDSDecls(resource_name_prefix, rds_config, vpc_id, subnet_ids,
                        access_security_groups))

(***************************************************************************)
(* __main__.py: the entrypoint                                             *)
(***************************************************************************)
\* Python's seq[:n]
Slice(seq, n) ==
    IF n >= 0 THEN SubSeq(seq, 1, Min(n, Len(seq)))
    ELSE SubSeq(seq, 1, Max(0, Len(seq) + n))

VpcName(prefix) == prefix \o "-vpc"

\* awsx.ec2.Vpc over the given zones, no NAT gateways: one public and one
\* private subnet per zone
VpcDecl(prefix, availability_zone_names) ==
    Res("awsx:ec2:Vpc", VpcName(prefix), "",
        [availability_zone_names |-> availability_zone_names,
         nat_gateways |-> "None",
         public_subnet_ids |->
            [i \in 1..Len(availability_zone_names) |->
                [of |-> VpcName(prefix), attr |-> "public_subnet",
                 zone |-> availability_zone_names[i]]],
         private_subnet_ids |->
            [i \in 1..Len(availability_zone_names) |->
                [of |-> VpcName(prefix), attr |-> "private_subnet",
                 zone |-> availability_zone_names[i]]]])

\* the vpc variable of the entrypoint
VpcOf(r) ==
    LET i == CHOOSE j \in 1..Len(r.resources) :
                 r.resources[j].type = "awsx:ec2:Vpc"
    IN  r.resources[i]

\* the target_group variable: what add_target_group returned
TargetGroupOf(r) == r.lb.target_groups[Len(r.lb.target_groups)]

\* lines 13-20: the zones slice raises TypeError unless the count is an int
StageNetwork(r, s, p) ==
    LET n == s.NUMBER_OF_AVAILABILITY_ZONES
    IN  IF n.kind # "int" THEN [r EXCEPT !.err = "TypeError"]
        ELSE Declare(r, VpcDecl(s.RESOURCE_NAME_PREFIX.s, Slice(p.zones, n.i)))

\* one stage of the entrypoint on the run so far
RunStage(stage, r, s, p) ==
    LET prefix == s.RESOURCE_NAME_PREFIX.s
        vpc_id == Out(VpcName(prefix), "vpc_id")
    IN  CASE stage = "network" -> StageNetwork(r, s, p)
          [] stage = "lb" ->
                LoadBalancerInit(r, prefix, vpc_id,
                                 VpcOf(r).args.public_subnet_ids)
          [] stage = "dns" -> AddDnsRecord(r, p, s.lb.domain_name)
          [] stage = "tg" -> AddTargetGroup(r, s.lb.health_check_path)
          [] stage = "listener" ->
                AddListener(r, p, s.lb.domain_name, TargetGroupOf(r))
          [] stage = "repository" ->
                Declare(r, Res("awsx:ecr:Repository",
                               prefix \o "-repository", "", << >>))
          [] stage = "image" ->
                Declare(r, Res("awsx:ecr:Image", prefix \o "-image", "",
                               [repository_url |->
                                    Out(prefix \o "-repository", "url"),
                                path |-> s.DOCKER_BUILD_SOURCE]))
          [] stage = "cluster" ->
                ClusterInit(r, prefix, vpc_id, s.ecs.cluster_name, s.ecs_ec2,
                            s.ecs.max_instance_count,
                            s.ecs.min_instance_count,
                            VpcOf(r).args.public_subnet_ids)
          [] stage = "task" ->
                TaskInit(r, prefix, s.ecs.task_family_name,
                         s.ecs.container_name,
                         Out(prefix \o "-image", "image_uri"))
          [] stage = "service" ->
                ServiceInit(r, prefix,
                            Out(ClusterPrefix(prefix) \o "cluster", "arn"),
                            Out(TaskPrefix(prefix) \o "-task-definition",
                                "arn"),
                            Out(TargetGroupOf(r).decl.name, "arn"),
                            <<ClusterPrefix(prefix) \o "-sg">>,
                            s.ecs.container_name,
                            VpcOf(r).args.public_subnet_ids,
                            s.ecs.desired_task_count)
          [] stage = "rds" ->
                RDSInit(r, prefix, s.rds, vpc_id,
                        VpcOf(r).args.private_subnet_ids,
                        <<ClusterPrefix(prefix) \o "-sg">>)

\* the stages of the full wiring, in the order of the file
FullWiringStages ==
    <<"network", "lb", "dns", "tg", "listener", "repository", "image",
      "cluster", "task", "service", "rds">>

\* variant: the load balancer stage is live as well
EntrypointStagesWithLB == <<"network", "lb">>

\* the stages that are live in the entrypoint as it stands: lines 21-75 are
\* comments
EntrypointStages == <<"network">>

\* a failure ends the run: later stages are not evaluated
RECURSIVE RunStages(_, _, _, _)
RunStages(stages, r, s, p) ==
    IF stages = << >> \/ r.err # "none" THEN r
    ELSE RunStages(Tail(stages), RunStage(Head(stages), r, s, p), s, p)

(***************************************************************************)
(* The state machine                                                       *)
(***************************************************************************)
Run == [resources |-> resources, lb |-> lbobj, calls |-> calls, err |-> err]

SetRun(r) ==
    /\ resources' = r.resources
    /\ lbobj' = r.lb
    /\ calls' = r.calls
    /\ err' = r.err

After(r, next) == IF r.err = "none" THEN next ELSE "aborted"

\* A run of the entrypoint starts before "import config".
Init ==
    /\ pulumi_config \in ConfigChoices
    /\ provider \in ProviderChoices
    /\ settings = NotLoaded
    /\ resources = NewRun.resources
    /\ lbobj = NewRun.lb
    /\ calls = NewRun.calls
    /\ err = "none"
    /\ http = << >>
    /\ pc = "import"

\* import config (config.py, top to bottom)
ImportConfig(next) ==
    /\ IF ConfigImportRaises(pulumi_config)
       THEN /\ err' = "TypeError"
            /\ pc' = "aborted"
            /\ UNCHANGED settings
       ELSE /\ settings' = ConfigModule(pulumi_config)
            /\ pc' = next
            /\ UNCHANGED err
    /\ UNCHANGED <<pulumi_config, provider, resources, lbobj, calls, http>>

Import == pc = "import" /\ ImportConfig("main")

\* the body of __main__.py as it stands
Main ==
    /\ pc = "main"
    /\ LET r == RunStages(EntrypointStages, Run, settings, provider)
       IN  SetRun(r) /\ pc' = After(r, "done")
    /\ UNCHANGED <<pulumi_config, provider, settings, http>>

Next == Import \/ Main

Spec == Init /\ [][Next]_vars

(***************************************************************************)
(* The full wiring: the entrypoint with lines 21-75 live                   *)
(***************************************************************************)
StageAction(stage, next) ==
    /\ LET r == RunStage(stage, Run, settings, provider)
       IN  SetRun(r) /\ pc' = After(r, next)
    /\ UNCHANGED <<pulumi_config, provider, settings, http>>

FullImport == pc = "import" /\ ImportConfig("network")
FullNetwork == pc = "network" /\ StageAction("network", "lb")
FullLoadBalancer == pc = "lb" /\ StageAction("lb", "dns")
FullDnsRecord == pc = "dns" /\ StageAction("dns", "tg")
FullTargetGroup == pc = "tg" /\ StageAction("tg", "listener")
FullListener == pc = "listener" /\ StageAction("listener", "repository")
FullRepository == pc = "repository" /\ StageAction("repository", "image")
\* variant: the database stage is placed before the cluster stage
FullImageThenRDS == pc = "image" /\ StageAction("image", "rds")
FullImage == pc = "image" /\ StageAction("image", "cluster")
FullCluster == pc = "cluster" /\ StageAction("cluster", "task")
FullTask == pc = "task" /\ StageAction("task", "service")
FullService == pc = "service" /\ StageAction("service", "rds")
FullRDS == pc = "rds" /\ StageAction("rds", "done")

NextFull ==
    \/ FullImport
    \/ FullNetwork
    \/ FullLoadBalancer
    \/ FullDnsRecord
    \/ FullTargetGroup
    \/ FullListener
    \/ FullRepository
    \/ FullImage
    \/ FullCluster
    \/ FullTask
    \/ FullService
    \/ FullRDS

SpecFull == Init /\ [][NextFull]_vars

(***************************************************************************)
(* The components on their own: constructors and LoadBalancer methods      *)
(* called with arguments of the caller's choosing                          *)
(***************************************************************************)
\* largest instance count passed to Cluster
MaxInstances == 2

DefaultConfig ==
    [aws_region |-> Unset, docker_build_source |-> Unset,
     resource_name_prefix |-> Unset, number_of_availability_zones |-> Unset,
     ecs |-> AbsentObj, lb |-> AbsentObj, ecs_ec2 |-> AbsentObj,
     rds |-> AbsentObj]

ArgPrefixes == {"ind", "app"}
ArgVpcId == Out("ind-vpc", "vpc_id")
ArgSubnetIds == VpcDecl("ind", SubSeq(ZoneNames, 1, 2)).args.public_subnet_ids
ArgDomains == {StrV("example.com"), StrV("app.example.com")}
ArgPaths == {StrV("/"), StrV("/health")}
ArgSecurityGroupLists ==
    {<< >>, <<"ind-ecs-cluster-sg">>, <<"ind-ecs-cluster-sg", "bastion-sg">>}
ArgInstanceCounts == {IntV(n) : n \in 0..MaxInstances}
ArgEC2Configs ==
    {Dataclass(EC2Fields, EC2Defaults, ConfigGetObject(c)) :
        c \in {x \in EC2Choices :
                 ~DataclassRaises(EC2Fields, {}, ConfigGetObject(x))}}
ArgRDSConfigs ==
    {Dataclass(RDSFields, RDSDefaults, ConfigGetObject(c)) :
        c \in {x \in RDSChoices :
                 ~DataclassRaises(RDSFields, {}, ConfigGetObject(x))}}

InitComponents ==
    /\ pulumi_config = DefaultConfig
    /\ provider \in ProviderChoices
    /\ settings = NotLoaded
    /\ resources = NewRun.resources
    /\ lbobj = NewRun.lb
    /\ calls = NewRun.calls
    /\ err = "none"
    /\ http = << >>
    /\ pc = "new"

Frame == UNCHANGED <<pulumi_config, provider, settings, http>>

NewLoadBalancer ==
    /\ pc = "new"
    /\ \E prefix \in ArgPrefixes :
          LET r == LoadBalancerInit(Run, prefix, ArgVpcId, ArgSubnetIds)
          IN  SetRun(r) /\ pc' = After(r, "lb")
    /\ Frame

\* the LoadBalancer method calls made so far
MethodCalls == Len(calls) - 1

CallAddDnsRecord ==
    /\ pc = "lb"
    /\ MethodCalls < MaxCalls
    /\ \E domain_name \in ArgDomains :
          LET r == AddDnsRecord(Run, provider, domain_name)
          IN  SetRun(r) /\ pc' = After(r, "lb")
    /\ Frame

CallAddTargetGroup ==
    /\ pc = "lb"
    /\ MethodCalls < MaxCalls
    /\ \E health_check_path \in ArgPaths :
          LET r == AddTargetGroup(Run, health_check_path)
          IN  SetRun(r) /\ pc' = After(r, "lb")
    /\ Frame

CallAddListener ==
    /\ pc = "lb"
    /\ MethodCalls < MaxCalls
    /\ \E certificate_domain \in ArgDomains :
       \E i \in 1..Len(lbobj.target_groups) :
          LET r == AddListener(Run, provider, certificate_domain,
                               lbobj.target_groups[i])
          IN  SetRun(r) /\ pc' = After(r, "lb")
    /\ Frame

NewCluster ==
    /\ pc = "new"
    /\ \E prefix \in ArgPrefixes, ec2_config \in ArgEC2Configs,
          max_instance_count \in ArgInstanceCounts,
          min_instance_count \in ArgInstanceCounts :
          LET r == ClusterInit(Run, prefix, ArgVpcId, StrV("cluster-main"),
                               ec2_config, max_instance_count,
                               min_instance_count, ArgSubnetIds)
          IN  SetRun(r) /\ pc' = After(r, "done")
    /\ Frame

NewTask ==
    /\ pc = "new"
    /\ \E prefix \in ArgPrefixes :
          LET r == TaskInit(Run, prefix, StrV("task-main"),
                            StrV("container-main"),
                            Out(prefix \o "-image", "image_uri"))
          IN  SetRun(r) /\ pc' = After(r, "done")
    /\ Frame

NewService ==
    /\ pc = "new"
    /\ \E prefix \in ArgPrefixes, desired_task_count \in ArgInstanceCounts :
          LET r == ServiceInit(Run, prefix, Out("cluster", "arn"),
                               Out("task-definition", "arn"),
                               Out("tg", "arn"), <<"ind-ecs-cluster-sg">>,
                               StrV("container-main"), ArgSubnetIds,
                               desired_task_count)
          IN  SetRun(r) /\ pc' = After(r, "done")
    /\ Frame

NewRDS ==
    /\ pc = "new"
    /\ \E prefix \in ArgPrefixes, rds_config \in ArgRDSConfigs,
          access_security_groups \in ArgSecurityGroupLists :
          LET r == RDSInit(Run, prefix, rds_config, ArgVpcId, ArgSubnetIds,
                           access_security_groups)
          IN  SetRun(r) /\ pc' = After(r, "done")
    /\ Frame

NextComponents ==
    \/ NewLoadBalancer
    \/ CallAddDnsRecord
    \/ CallAddTargetGroup
    \/ CallAddListener
    \/ NewCluster
    \/ NewTask
    \/ NewService
    \/ NewRDS

SpecComponents == InitComponents /\ [][NextComponents]_vars

(***************************************************************************)
(* backend: the web service and its test client                            *)
(***************************************************************************)
\* variant: the handler answers in lower case, without the exclamation mark
ReadMainLower == "hello world"

\* what the handler of GET / returns
ReadMain == "Hello world!"

\* the JSON text of a string without characters to escape
JsonString(s) == "\"" \o s \o "\""

\* the response of the application: one route, GET /
Respond(method, path) ==
    IF path # "/" THEN [status |-> 404, body |-> "{\"detail\":\"Not Found\"}"]
    ELSE IF method # "GET"
         THEN [status |-> 405, body |-> "{\"detail\":\"Method Not Allowed\"}"]
         ELSE [status |-> 200, body |-> JsonString(ReadMain)]

RequestMethods == {"GET", "POST"}
RequestPaths == {"/", "/health"}

\* the web service does not consult the cloud provider
NoProvider == [zones |-> << >>, hosted_zones |-> {}, certificates |-> {}]

InitWeb ==
    /\ pulumi_config = DefaultConfig
    /\ provider = NoProvider
    /\ settings = NotLoaded
    /\ resources = NewRun.resources
    /\ lbobj = NewRun.lb
    /\ calls = NewRun.calls
    /\ err = "none"
    /\ http = << >>
    /\ pc = "serving"

\* client.get("/") and the other requests a client may send
Request ==
    /\ pc = "serving"
    /\ Len(http) < MaxRequests
    /\ \E method \in RequestMethods, path \in RequestPaths :
          http' = Append(http, [method |-> method, path |-> path,
                                response |-> Respond(method, path)])
    /\ UNCHANGED <<pulumi_config, provider, settings, resources, lbobj,
                   calls, err, pc>>

NextWeb == Request

SpecWeb == InitWeb /\ [][NextWeb]_vars

(***************************************************************************)
(* Properties                                                              *)
(***************************************************************************)
Range(seq) == {seq[i] : i \in 1..Len(seq)}

OfType(type) == {d \in Range(resources) : d.type = type}

CallsOf(op) == SelectSeq(calls, LAMBDA c : c.op = op)

\* name = prefix followed by a non-empty suffix
HasPrefixAndSuffix(name, prefix) ==
    /\ Len(name) > Len(prefix)
    /\ SubSeq(name, 1, Len(prefix)) = prefix

\* C1: on a constructed LoadBalancer, after k calls of add_target_group and
\* no other method call, every call has succeeded and target_groups holds k
\* entries, the i-th built by the i-th call with its health-check path, no
\* two of them the same declared resource.
C1_TargetGroupsAccumulate ==
    (/\ lbobj.constructed
     /\ \A n \in 2..Len(calls) : calls[n].op = "add_target_group") =>
        LET k == Len(CallsOf("add_target_group"))
            tgs == lbobj.target_groups
        IN  /\ err = "none"
            /\ Len(tgs) = k
            /\ \A i \in 1..Len(tgs) :
                  /\ calls[tgs[i].oid].op = "add_target_group"
                  /\ tgs[i].decl.args.health_check_path
                        = calls[tgs[i].oid].args.health_check_path
            /\ \A i, j \in 1..Len(tgs) :
                  i < j => /\ tgs[i].oid < tgs[j].oid
                           /\ ~SameURN(tgs[i].decl, tgs[j].decl)

\* the zone count the configuration asks for
RequestedZoneCount ==
    LET e == pulumi_config.number_of_availability_zones
    IN  IF ~e.set THEN 2
        ELSE CASE e.s = "1" -> 1 [] e.s = "2" -> 2 [] e.s = "3" -> 3

\* C2: once the settings are loaded and the entrypoint has run, the network
\* is declared over the first N reported zones and has exactly N public and
\* N private subnets, one pair per zone, N being the requested zone count.
C2_NSubnetPairs ==
    (settings.loaded /\ pc \in {"done", "aborted"}) =>
        /\ err = "none"
        /\ Len(resources) = 1
        /\ LET vpc == resources[1].args
               n == RequestedZoneCount
           IN  /\ Len(vpc.availability_zone_names) = n
               /\ Len(vpc.public_subnet_ids) = n
               /\ Len(vpc.private_subnet_ids) = n
               /\ \A i \in 1..n :
                     /\ vpc.availability_zone_names[i] = provider.zones[i]
                     /\ vpc.public_subnet_ids[i].zone = provider.zones[i]
                     /\ vpc.private_subnet_ids[i].zone = provider.zones[i]

\* C3: in the full wiring every declared resource, the component resources
\* included, is named by the configured prefix followed by a non-empty
\* suffix, and no two declared resources share a name.
C3_NamesPrefixedAndDistinct ==
    settings.loaded =>
        /\ \A i \in 1..Len(resources) :
              HasPrefixAndSuffix(resources[i].name,
                                 settings.RESOURCE_NAME_PREFIX.s)
        /\ \A i, j \in 1..Len(resources) :
              i # j => resources[i].name # resources[j].name

\* C4: no ingress rule of the cluster's security group admits a source other
\* than the load balancer's security group.
C4_ClusterIngressOnlyFromLB ==
    settings.loaded =>
        LET prefix == settings.RESOURCE_NAME_PREFIX.s
        IN  \A d \in OfType("aws:ec2:SecurityGroupRule") :
               (d.args.type = "ingress"
                /\ d.args.security_group_id = ClusterPrefix(prefix) \o "-sg")
               => /\ d.args.cidr_blocks = {}
                  /\ d.args.ipv6_cidr_blocks = {}
                  /\ d.args.source_security_group_id
                        = LBPrefix(prefix) \o "-sg"

\* the security groups a constructed RDS declared
RDSSecurityGroups(c) ==
    {d \in OfType("aws:ec2:SecurityGroup") :
        d.name = RDSPrefix(c.args.resource_name_prefix) \o "-sg"}

\* C5: the database security group has exactly one ingress rule: TCP on the
\* configured port (from_port = to_port = rds_config.port), from exactly the
\* supplied security groups, with no CIDR source; no separate rule resource
\* adds ingress to it.
C5_RDSIngressOnlyFromGranted ==
    \A k \in 1..Len(calls) :
        calls[k].op = "RDS" =>
            /\ RDSSecurityGroups(calls[k]) # {}
            /\ \A sg \in RDSSecurityGroups(calls[k]) :
                  /\ Len(sg.args.ingress) = 1
                  /\ sg.args.ingress[1].from_port
                        = calls[k].args.rds_config.port
                  /\ sg.args.ingress[1].to_port
                        = calls[k].args.rds_config.port
                  /\ sg.args.ingress[1].protocol = "tcp"
                  /\ sg.args.ingress[1].security_groups
                        = calls[k].args.access_security_groups
                  /\ sg.args.ingress[1].cidr_blocks = {}
                  /\ \A d \in OfType("aws:ec2:SecurityGroupRule") :
                        d.args.security_group_id # sg.name

C5_Witness ==
    /\ pc = "done"
    /\ \E k \in 1..Len(calls) :
          /\ calls[k].op = "RDS"
          /\ calls[k].args.rds_config.port = IntV(5432)
          /\ Len(calls[k].args.access_security_groups) = 2
          /\ \E sg \in RDSSecurityGroups(calls[k]) :
                sg.args.ingress[1].from_port = IntV(5432)

\* C6 as stated: importing the settings never raises, whatever the external
\* configuration holds.
C6_ImportNeverRaises == pc # "import" => settings.loaded

\* a structured entry Cls(**value) cannot take: not an object, or holding a
\* key outside the given fields
Misshapen(entry, fields) ==
    entry.kind = "scalar" \/ ~(DOMAIN entry.obj \subseteq fields)

\* C6 amended: the import raises a local TypeError exactly when a structured
\* entry is not an object, holds a key that is no field of its record, or
\* the lb entry lacks domain_name; then nothing is declared.  Otherwise it
\* returns the records, and a wrongly typed value is stored as configured.
C6_ImportRaisesOnShapeOnly ==
    pc # "import" =>
        LET c == pulumi_config
            bad == \/ Misshapen(c.ecs, ECSFields)
                   \/ Misshapen(c.lb, LBFields)
                   \/ Misshapen(c.ecs_ec2, EC2Fields)
                   \/ Misshapen(c.rds, RDSFields)
                   \/ "domain_name" \notin DOMAIN c.lb.obj
        IN  /\ settings.loaded <=> ~bad
            /\ ~settings.loaded =>
                  (err = "TypeError" /\ pc = "aborted" /\ resources = << >>)
            /\ settings.loaded =>
                  /\ \A f \in DOMAIN c.rds.obj : settings.rds[f] = c.rds.obj[f]
                  /\ \A f \in DOMAIN c.ecs.obj : settings.ecs[f] = c.ecs.obj[f]
                  /\ \A f \in DOMAIN c.lb.obj : settings.lb[f] = c.lb.obj[f]

C6_Witness ==
    /\ pc = "aborted"
    /\ ~settings.loaded
    /\ err = "TypeError"
    /\ pulumi_config.lb = AbsentObj
    /\ pulumi_config.ecs = AbsentObj
    /\ pulumi_config.ecs_ec2 = AbsentObj
    /\ pulumi_config.rds = Obj([port |-> StrV("5432")])

\* C7: the entrypoint as it stands declares the virtual network and nothing
\* else: no other resource is ever declared, no LoadBalancer is constructed,
\* and a completed run has declared exactly the network.
C7_OnlyNetworkDeclared ==
    /\ \A i \in 1..Len(resources) : resources[i].type = "awsx:ec2:Vpc"
    /\ Len(resources) <= 1
    /\ ~lbobj.constructed
    /\ calls = << >>
    /\ pc = "done" => Len(resources) = 1

C7_Witness ==
    /\ pc = "done"
    /\ Len(resources) = 1
    /\ resources[1].name = "app-vpc"
    /\ Len(resources[1].args.public_subnet_ids) = 2

\* the loaded record holds, for each field, the configured value when the
\* entry overrides the field and the given default otherwise
MergedOnto(record, entry, fields, defaults) ==
    \A f \in fields :
        record[f] = IF f \in DOMAIN entry.obj THEN entry.obj[f]
                    ELSE defaults[f]

\* C8: in the loaded rds, ecs and ecs_ec2 records every field the
\* configuration does not override holds its dataclass default and every
\* overridden field the configured value; with no rds override the engine is
\* "aurora-mysql" and the port 3306.
C8_DefaultsMerged ==
    settings.loaded =>
        /\ MergedOnto(settings.rds, pulumi_config.rds, RDSFields, RDSDefaults)
        /\ MergedOnto(settings.ecs, pulumi_config.ecs, ECSFields, ECSDefaults)
        /\ MergedOnto(settings.ecs_ec2, pulumi_config.ecs_ec2, EC2Fields,
                      EC2Defaults)
        /\ pulumi_config.rds = AbsentObj =>
              /\ settings.rds.engine = StrV("aurora-mysql")
              /\ settings.rds.port = IntV(3306)
        /\ pulumi_config.ecs = AbsentObj =>
              /\ settings.ecs.min_instance_count = IntV(0)
              /\ settings.ecs.max_instance_count = IntV(1)
        /\ pulumi_config.ecs_ec2 = AbsentObj =>
              settings.ecs_ec2.instance_type = StrV("t4g.small")

C8_Witness ==
    /\ settings.loaded
    /\ pulumi_config.rds
          = Obj([port |-> IntV(5432), engine |-> StrV("aurora-postgresql")])
    /\ settings.rds.port = IntV(5432)
    /\ settings.rds.engine = StrV("aurora-postgresql")
    /\ settings.rds.engine_mode = StrV("provisioned")
    /\ pulumi_config.ecs = AbsentObj
    /\ settings.ecs.max_instance_count = IntV(1)

\* C9: every capacity provider Cluster declares has managed scaling enabled
\* with target capacity 10 and step sizes 1 to 1000, whatever instance
\* counts and EC2 configuration were passed.
C9_TargetCapacityTen ==
    /\ \A d \in OfType("aws:ecs:CapacityProvider") :
          /\ d.args.managed_scaling.status = "ENABLED"
          /\ d.args.managed_scaling.target_capacity = 10
          /\ d.args.managed_scaling.minimum_scaling_step_size = 1
          /\ d.args.managed_scaling.maximum_scaling_step_size = 1000
    /\ \A k \in 1..Len(calls) :
          (calls[k].op = "Cluster" /\ err = "none")
          => OfType("aws:ecs:CapacityProvider") # {}

C9_Witness ==
    /\ pc = "done"
    /\ OfType("aws:ecs:CapacityProvider") # {}
    /\ \E k \in 1..Len(calls) :
          /\ calls[k].op = "Cluster"
          /\ calls[k].args.min_instance_count = IntV(1)
          /\ calls[k].args.max_instance_count = IntV(2)
          /\ calls[k].args.ec2_config.instance_type = StrV("t4g.large")

\* C10: every database cluster RDS declares has skip_final_snapshot = TRUE,
\* whatever the RDS configuration holds.
C10_SkipFinalSnapshot ==
    /\ \A d \in OfType("aws:rds:Cluster") : d.args.skip_final_snapshot = TRUE
    /\ \A k \in 1..Len(calls) :
          (calls[k].op = "RDS" /\ err = "none")
          => OfType("aws:rds:Cluster") # {}

C10_Witness ==
    /\ pc = "done"
    /\ \E d \in OfType("aws:rds:Cluster") :
          /\ d.args.engine = StrV("aurora-postgresql")
          /\ d.args.skip_final_snapshot = TRUE

\* C11: every GET request to / is answered with status 200 and a body that
\* is exactly the JSON string "Hello world!" (quotes included), whatever
\* requests came before it.
C11_RootSaysHello ==
    \A i \in 1..Len(http) :
        (http[i].method = "GET" /\ http[i].path = "/") =>
            /\ http[i].response.status = 200
            /\ http[i].response.body = "\"Hello world!\""
            /\ Len(http[i].response.body) = 14

C11_Witness ==
    /\ Len(http) = 3
    /\ http[1].method = "GET" /\ http[1].path = "/"
    /\ http[2].method = "POST"
    /\ http[3].method = "GET" /\ http[3].path = "/"
    /\ http[3].response.status = 200

\* the names referred to by a sequence of outputs
OutNames(outs) == {outs[i].of : i \in 1..Len(outs)}

\* the declared resources whose outputs or identity a declaration consumes:
\* its parent component and every resource one of its arguments refers to
Consumes(d) ==
    (IF d.parent = "" THEN {} ELSE {d.parent}) \cup
    CASE d.type = "aws:ec2:SecurityGroup" ->
            {d.args.vpc_id.of} \cup
            UNION {Range(d.args.ingress[i].security_groups) :
                      i \in 1..Len(d.args.ingress)}
      [] d.type = "aws:ec2:SecurityGroupRule" -> {d.args.security_group_id}
      [] d.type = "aws:lb:LoadBalancer" ->
            Range(d.args.security_groups) \cup OutNames(d.args.subnets)
      [] d.type = "aws:route53:Record" -> {d.args.alias_name.of}
      [] d.type = "aws:lb:TargetGroup" -> {d.args.vpc_id.of}
      [] d.type = "aws:lb:Listener" ->
            {d.args.load_balancer_arn.of, d.args.target_group_arn.of}
      [] d.type = "awsx:ecr:Image" -> {d.args.repository_url.of}
      [] d.type = "aws:iam:RolePolicyAttachment" -> {d.args.role.of}
      [] d.type = "aws:iam:InstanceProfile" -> {d.args.role.of}
      [] d.type = "aws:ec2:LaunchTemplate" ->
            {d.args.iam_instance_profile.of} \cup Range(d.args.security_groups)
      [] d.type = "aws:autoscaling:Group" ->
            {d.args.launch_template.of}
            \cup OutNames(d.args.vpc_zone_identifiers)
      [] d.type = "aws:ecs:CapacityProvider" ->
            {d.args.auto_scaling_group_arn.of}
      [] d.type = "aws:ecs:ClusterCapacityProviders" ->
            {d.args.cluster_name.of} \cup OutNames(d.args.capacity_providers)
      [] d.type = "aws:ecs:TaskDefinition" ->
            {d.args.execution_role_arn.of, d.args.container_image.of}
      [] d.type = "aws:ecs:Service" ->
            {d.args.cluster.of, d.args.task_definition.of,
             d.args.target_group_arn.of}
            \cup Range(d.args.security_groups) \cup OutNames(d.args.subnets)
      [] d.type = "aws:rds:SubnetGroup" -> OutNames(d.args.subnet_ids)
      [] d.type = "aws:rds:Cluster" ->
            {d.args.db_subnet_group_name.of}
            \cup Range(d.args.vpc_security_group_ids)
      [] d.type = "aws:rds:ClusterInstance" -> {d.args.cluster_identifier.of}
      [] OTHER -> {}

DeclaredBefore(i) == {resources[j].name : j \in 1..(i - 1)}

\* the position of the first declaration of a type, 0 when there is none
FirstOf(type) ==
    IF \E i \in 1..Len(resources) : resources[i].type = type
    THEN CHOOSE i \in 1..Len(resources) :
            /\ resources[i].type = type
            /\ \A j \in 1..(i - 1) : resources[j].type # type
    ELSE 0

Follows(type, earlier) ==
    FirstOf(type) > 0 => (0 < FirstOf(earlier) /\ FirstOf(earlier) < FirstOf(type))

\* C12: in the full wiring every resource is declared after each resource
\* whose output it consumes; load balancer, target group and listener follow
\* the network, the service follows the cluster, the task definition and the
\* target group, the database follows the network and the cluster.
C12_DeclaredInDependencyOrder ==
    /\ \A i \in 1..Len(resources) :
          Consumes(resources[i]) \subseteq DeclaredBefore(i)
    /\ Follows("aws:lb:LoadBalancer", "awsx:ec2:Vpc")
    /\ Follows("aws:lb:TargetGroup", "awsx:ec2:Vpc")
    /\ Follows("aws:lb:Listener", "awsx:ec2:Vpc")
    /\ Follows("aws:ecs:Service", "aws:ecs:Cluster")
    /\ Follows("aws:ecs:Service", "aws:ecs:TaskDefinition")
    /\ Follows("aws:ecs:Service", "aws:lb:TargetGroup")
    /\ Follows("aws:rds:Cluster", "awsx:ec2:Vpc")
    /\ Follows("aws:rds:Cluster", "aws:ecs:Cluster")

C12_Witness ==
    /\ pc = "done"
    /\ err = "none"
    /\ OfType("aws:ecs:Service") # {}
    /\ OfType("aws:rds:ClusterInstance") # {}
    /\ \E i \in 1..Len(resources) :
          /\ resources[i].type = "aws:ec2:SecurityGroup"
          /\ resources[i].args.ingress # << >>
          /\ Len(resources[i].args.ingress[1].security_groups) = 1

\* the lookups of the two load balancer methods that consult the account
NoHostedZone(domain_name) ==
    ~(domain_name.kind = "str" /\ domain_name.s \in provider.hosted_zones)

NoCertificate(domain) ==
    ~(domain.kind = "str" /\ domain.s \in provider.certificates)

\* the step fails on the lookup: nothing is declared, the lists of the load
\* balancer are as before and the run is over
FailsOnLookup(op) ==
    /\ err' = "LookupError"
    /\ pc' = "aborted"
    /\ resources' = resources
    /\ lbobj' = lbobj
    /\ Len(calls') = Len(calls) + 1
    /\ calls'[Len(calls')].op = op
    /\ ~calls'[Len(calls')].ok

\* C13: when add_dns_record finds no hosted zone, or add_listener finds no
\* certificate, the call fails, no record or listener is declared, the lists
\* of the load balancer are unchanged and no later stage is evaluated.
C13_LookupFailureEndsRun ==
    [][/\ (pc = "dns" /\ NoHostedZone(settings.lb.domain_name))
              => FailsOnLookup("add_dns_record")
       /\ (pc = "listener" /\ NoCertificate(settings.lb.domain_name))
              => FailsOnLookup("add_listener")
       /\ \A n \in 1..Len(calls) : ~calls[n].ok => vars' = vars
       /\ \A n \in 1..Len(calls') :
             ~calls'[n].ok => (n = Len(calls') /\ pc' = "aborted")]_vars

C13_Witness ==
    /\ pc = "aborted"
    /\ err = "LookupError"
    /\ calls[Len(calls)].op = "add_listener"
    /\ ~calls[Len(calls)].ok
    /\ Len(lbobj.records) = 1
    /\ Len(lbobj.target_groups) = 1
    /\ lbobj.listeners = << >>
    /\ OfType("aws:lb:Listener") = {}
    /\ OfType("awsx:ecr:Repository") = {}

\* the record that the n-th call created, as kept in the records list
RecordsOfCall(n) ==
    {lbobj.records[k].decl : k \in {j \in 1..Len(lbobj.records) : lbobj.records[j].oid = n}}

AliasRecordIn(d, domain_name, zone) ==
    /\ d.type = "aws:route53:Record"
    /\ d.args.name = domain_name
    /\ d.args.type = "A"
    /\ d.args.zone_id = Out(zone, "zone_id")
    /\ d.args.alias_name = Out(lbobj.resource_name_prefix \o "-alb", "dns_name")
    /\ d.args.alias_zone_id = Out(lbobj.resource_name_prefix \o "-alb", "zone_id")

DnsCalls == {n \in 1..Len(calls) : calls[n].op = "add_dns_record"}

\* C14 as stated: for every domain name, a subdomain included, add_dns_record
\* looks up the hosted zone of the apex of the domain and creates the alias
\* record for the given domain in that zone, pointing at the load balancer.
C14_ZoneOfApex ==
    \A n \in DnsCalls :
        LET domain_name == calls[n].args.domain_name
        IN  Apex(domain_name.s) \in provider.hosted_zones =>
                /\ calls[n].ok
                /\ \E d \in RecordsOfCall(n) :
                      AliasRecordIn(d, domain_name, Apex(domain_name.s))

\* C14 amended: add_dns_record looks up the hosted zone whose name is the
\* given domain name itself, and fails when there is none, also when a zone
\* of the apex exists; on success it creates the alias record for the domain
\* in the zone of that very name, pointing at the load balancer.
C14_ZoneOfExactName ==
    \A n \in DnsCalls :
        LET domain_name == calls[n].args.domain_name
        IN  /\ calls[n].ok <=> domain_name.s \in provider.hosted_zones
            /\ calls[n].ok =>
                  /\ RecordsOfCall(n) # {}
                  /\ \A d \in RecordsOfCall(n) :
                        AliasRecordIn(d, domain_name, domain_name.s)
            /\ ~calls[n].ok => RecordsOfCall(n) = {}

C14_Witness ==
    /\ provider.hosted_zones = {"example.com", "app.example.com"}
    /\ \E n \in DnsCalls :
          /\ calls[n].args.domain_name = StrV("app.example.com")
          /\ calls[n].ok
          /\ \E d \in RecordsOfCall(n) :
                d.args.zone_id = Out("app.example.com", "zone_id")

IsPrefix(a, b) == Len(a) <= Len(b) /\ SubSeq(b, 1, Len(a)) = a

OneMore(a, b) == Len(b) = Len(a) + 1 /\ IsPrefix(a, b)

\* a method call of the load balancer that returned and left the run intact
Succeeds(op) ==
    /\ lbobj.constructed
    /\ Len(calls') = Len(calls) + 1
    /\ calls'[Len(calls')].op = op
    /\ calls'[Len(calls')].ok
    /\ err' = "none"

\* C15: the four lists of a LoadBalancer are empty after construction; each
\* successful add_dns_record, add_target_group or add_listener call appends
\* exactly one element to records, target_groups or listeners respectively
\* and leaves the other lists as they were; no list ever shrinks and
\* target_group_attachments stays empty.
C15_ListsOnlyGrowByOwnCall ==
    [][/\ (~lbobj.constructed /\ lbobj'.constructed) =>
             /\ lbobj'.records = << >>
             /\ lbobj'.target_groups = << >>
             /\ lbobj'.target_group_attachments = << >>
             /\ lbobj'.listeners = << >>
       /\ Succeeds("add_dns_record") =>
             /\ OneMore(lbobj.records, lbobj'.records)
             /\ lbobj'.target_groups = lbobj.target_groups
             /\ lbobj'.listeners = lbobj.listeners
       /\ Succeeds("add_target_group") =>
             /\ OneMore(lbobj.target_groups, lbobj'.target_groups)
             /\ lbobj'.records = lbobj.records
             /\ lbobj'.listeners = lbobj.listeners
       /\ Succeeds("add_listener") =>
             /\ OneMore(lbobj.listeners, lbobj'.listeners)
             /\ lbobj'.records = lbobj.records
             /\ lbobj'.target_groups = lbobj.target_groups
       /\ lbobj.constructed =>
             /\ lbobj'.constructed
             /\ IsPrefix(lbobj.records, lbobj'.records)
             /\ IsPrefix(lbobj.target_groups, lbobj'.target_groups)
             /\ IsPrefix(lbobj.listeners, lbobj'.listeners)
             /\ lbobj'.target_group_attachments = << >>]_vars

C15_Witness ==
    /\ lbobj.constructed
    /\ err = "none"
    /\ Len(calls) = 4
    /\ Len(lbobj.records) = 1
    /\ Len(lbobj.target_groups) = 1
    /\ Len(lbobj.listeners) = 1
    /\ lbobj.target_group_attachments = << >>

\* C16: for every pair 0 <= min_instance_count <= max_instance_count given
\* to Cluster, the auto-scaling group it declares has its desired capacity
\* within its own size bounds: min_size <= desired_capacity <= max_size.
C16_DesiredCapacityWithinBounds ==
    \A k \in 1..Len(calls) :
        (/\ calls[k].op = "Cluster"
         /\ 0 <= calls[k].args.min_instance_count.i
         /\ calls[k].args.min_instance_count.i <= calls[k].args.max_instance_count.i)
        => \A d \in OfType("aws:autoscaling:Group") :
              /\ d.args.min_size.i <= d.args.desired_capacity.i
              /\ d.args.desired_capacity.i <= d.args.max_size.i

====
